---- MODULE Spec2Model ----
(***************************************************************************)
(* Model of cleanup_tool (src/cleanup_tool/src/main.rs): a one-shot pass   *)
(* that refuses a dirty git tree, walks the directory tree below ".",      *)
(* archives files whose name looks stale into ./archive, logs every move   *)
(* to ./archive/ARCHIVE_LOG.txt and then runs `cargo build`.               *)
(*                                                                         *)
(* A file name is a tuple of one-character strings, a path is a tuple of   *)
(* names (the components of a std::path::Path), a file's content is a      *)
(* tuple of bytes.  The file system is the partial function fs from the    *)
(* paths of regular files to their content, and the set dirs of            *)
(* directories.  ARCHIVE_LOG.txt is kept apart in archiveLog, its content  *)
(* being a sequence of lines; the time stamp of a line is left out.        *)
(* The trees hold regular files and directories only (no symbolic links,   *)
(* no unreadable entries), the order in which a directory yields its       *)
(* entries is free, and git and cargo are known by what they return; cargo *)
(* is taken to leave the files of the tree alone.                          *)
(***************************************************************************)
EXTENDS Integers, Sequences, FiniteSets, TLC

VARIABLES
    fs,          \* regular files: path -> content
    dirs,        \* directories
    archiveLog,  \* ./archive/ARCHIVE_LOG.txt: [exists, lines]
    pc,          \* position of the process: idle, main, walk, mkdir, rename, log, build, exit, killed
    dry_run,     \* main's dry_run
    stack,       \* WalkDir's stack of open directories: the entries each has still to yield
    cur,         \* the entry find_unused_code is archiving
    exit_code,   \* process status once pc = "exit"
    stdout,      \* lines printed by this run
    stderr,      \* the error message this run printed, <<>> for none
    gitOut,      \* what `git status --porcelain` produced for this run
    buildOut,    \* what `cargo build` produced for this run
    builds,      \* number of `cargo build` invocations of this run
    failed,      \* the file system call of this run that returned an Err, "" for none
    yielded,     \* entries the walk of this run has yielded
    moved,       \* relative paths renamed by this run, in order
    fs0,         \* fs when this run started
    dirs0,       \* dirs when this run started
    log0,        \* archiveLog when this run started
    quiet,       \* a live run finished archiving and nothing was written since
    quiet0,      \* quiet when this run started
    runs         \* processes started so far

vars == <<fs, dirs, archiveLog, pc, dry_run, stack, cur, exit_code, stdout, stderr,
          gitOut, buildOut, builds, failed, yielded, moved, fs0, dirs0, log0, quiet, quiet0,
          runs>>

(***************************************************************************)
(* Bounds                                                                  *)
(***************************************************************************)
MaxFiles == 2       \* files in the initial tree of a single run
MaxRuns == 2        \* invocations of the tool in a sequence of runs

(***************************************************************************)
(* Strings and paths                                                       *)
(***************************************************************************)
\* str::ends_with
EndsWith(s, suffix) ==
    /\ Len(s) >= Len(suffix)
    /\ SubSeq(s, Len(s) - Len(suffix) + 1, Len(s)) = suffix

\* str::contains
Contains(s, sub) ==
    \E i \in 1..(Len(s) - Len(sub) + 1) : SubSeq(s, i, i + Len(sub) - 1) = sub

\* Path::starts_with: whole components, not characters
StartsWith(path, base) ==
    /\ Len(path) >= Len(base)
    /\ SubSeq(path, 1, Len(base)) = base

\* Path::strip_prefix
StripPrefix(path, base) == SubSeq(path, Len(base) + 1, Len(path))

\* Path::join
Join(base, rel) == base \o rel

\* Path::parent
Parent(path) == SubSeq(path, 1, Len(path) - 1)

\* Path::file_name
FileName(path) == path[Len(path)]

dot_bak == <<".", "b", "a", "k">>
unused == <<"u", "n", "u", "s", "e", "d">>
legacy == <<"l", "e", "g", "a", "c", "y">>

\* main: PathBuf::from(".") and root.join("archive")
root == << <<".">> >>
archive == Join(root, << <<"a", "r", "c", "h", "i", "v", "e">> >>)

\* line 22 with contains(".bak") for ends_with(".bak")
NameMatchesContainsBak(filename) ==
    \/ Contains(filename, dot_bak)
    \/ Contains(filename, unused)
    \/ Contains(filename, legacy)

\* the condition of line 22
NameMatches(filename) ==
    \/ EndsWith(filename, dot_bak)
    \/ Contains(filename, unused)
    \/ Contains(filename, legacy)

(***************************************************************************)
(* The trees the model draws from                                          *)
(***************************************************************************)
old_bak == <<"o", "l", "d", ".", "b", "a", "k">>
a_bakx == <<"a", ".", "b", "a", "k", "x">>
archive_bak == <<"a", "r", "c", "h", "i", "v", "e", ".", "b", "a", "k">>
unused_rs == <<"u", "n", "u", "s", "e", "d", ".", "r", "s">>
Legacy_md == <<"L", "e", "g", "a", "c", "y", ".", "m", "d">>

WorkPaths ==
    { Join(root, <<old_bak>>),
      Join(root, <<a_bakx>>),
      Join(root, <<archive_bak>>),
      Join(root, <<legacy, unused_rs>>),
      Join(root, <<legacy, Legacy_md>>) }

ArchivePaths ==
    { Join(archive, <<old_bak>>),
      Join(archive, <<legacy>>) }

Contents == { <<>>, <<"a">>, <<"b">> }

\* the files that come and go in the working tree of a sequence of runs
RunsPaths ==
    { Join(root, <<old_bak>>),
      Join(root, <<legacy, unused_rs>>) }

\* the file that stays in it
KeptPath == Join(root, <<legacy, Legacy_md>>)

OldLine == [rel |-> <<legacy>>, dest |-> Join(archive, <<legacy>>)]

\* the directories above a path, the root included
Ancestors(path) == { SubSeq(path, 1, n) : n \in 1..(Len(path) - 1) }

AncestorsOfAll(paths) == UNION { Ancestors(p) : p \in paths }

\* fs::metadata(path).len(); nothing else writes the tree during a run, so the call
\* of line 19 does not fail for a path that is_file has just found
FileLen(f, path) == Len(f[path])

\* Path::is_file
IsFile(f, path) == path \in DOMAIN f

\* the entries of a directory
Children(f, d, dir) == { p \in DOMAIN f \cup d : p # root /\ Parent(p) = dir }

RECURSIVE PopEmpty(_)
\* WalkDir leaves a directory once it has yielded all its entries
PopEmpty(s) ==
    IF s # <<>> /\ s[Len(s)] = {} THEN PopEmpty(SubSeq(s, 1, Len(s) - 1)) ELSE s

Range(s) == { s[i] : i \in DOMAIN s }

\* the iterator after it yielded entry e of the directory on top of the stack
Advance(s, e) ==
    LET top == Len(s)
        rest == [s EXCEPT ![top] = @ \ {e}]
    IN  PopEmpty(IF e \in dirs THEN Append(rest, Children(fs, dirs, e)) ELSE rest)

Remove(f, path) == [q \in DOMAIN f \ {path} |-> f[q]]

Put(f, path, data) == [q \in DOMAIN f \cup {path} |-> IF q = path THEN data ELSE f[q]]

(***************************************************************************)
(* Initial states: some tree, no process                                   *)
(***************************************************************************)
\* the variables of one process, before it starts
NoProcess ==
    /\ pc = "idle"
    /\ dry_run = FALSE
    /\ stack = <<>>
    /\ cur = <<>>
    /\ exit_code = 0
    /\ stdout = <<>>
    /\ stderr = <<>>
    /\ gitOut = [spawned |-> TRUE, status |-> 0, stdout |-> <<>>]
    /\ buildOut = [spawned |-> TRUE, status |-> 0]
    /\ builds = 0
    /\ failed = ""
    /\ yielded = {}
    /\ moved = <<>>
    /\ fs0 = fs
    /\ dirs0 = dirs
    /\ log0 = archiveLog
    /\ quiet = FALSE
    /\ quiet0 = FALSE
    /\ runs = 0

\* a single run: up to MaxFiles files, anywhere, with or without an earlier log
Init ==
    /\ \E present \in SUBSET (WorkPaths \cup ArchivePaths) :
         /\ Cardinality(present) <= MaxFiles
         /\ fs \in [present -> Contents]
         /\ \E logged \in BOOLEAN :
              /\ archiveLog = [exists |-> logged,
                               lines |-> IF logged THEN <<OldLine>> ELSE <<>>]
              /\ dirs = {root} \cup AncestorsOfAll(present)
                          \cup (IF logged THEN {archive} ELSE {})
    /\ NoProcess

\* a sequence of runs: a working tree that was never cleaned up
InitRuns ==
    /\ \E present \in SUBSET RunsPaths :
         /\ \E f \in [present -> Contents] : fs = Put(f, KeptPath, <<"a">>)
         /\ dirs = {root} \cup AncestorsOfAll(present \cup {KeptPath})
    /\ archiveLog = [exists |-> FALSE, lines |-> <<>>]
    /\ NoProcess

(***************************************************************************)
(* The environment                                                         *)
(***************************************************************************)
\* between two runs somebody writes a file of the working tree
EnvWrite ==
    /\ pc \in {"exit", "killed"}
    /\ \E path \in RunsPaths, data \in Contents :
         /\ fs' = Put(fs, path, data)
         /\ dirs' = dirs \cup Ancestors(path)
    /\ pc' = "idle"
    /\ quiet' = FALSE
    /\ dry_run' = FALSE
    /\ stack' = <<>>
    /\ cur' = <<>>
    /\ exit_code' = 0
    /\ stdout' = <<>>
    /\ stderr' = <<>>
    /\ gitOut' = [spawned |-> TRUE, status |-> 0, stdout |-> <<>>]
    /\ buildOut' = [spawned |-> TRUE, status |-> 0]
    /\ builds' = 0
    /\ failed' = ""
    /\ yielded' = {}
    /\ moved' = <<>>
    /\ fs0' = fs'
    /\ dirs0' = dirs'
    /\ log0' = archiveLog
    /\ UNCHANGED <<archiveLog, quiet0, runs>>

\* the process is killed at any point of its run
Interrupt ==
    /\ pc \in {"main", "walk", "mkdir", "rename", "log", "build"}
    /\ pc' = "killed"
    /\ exit_code' = 137
    /\ UNCHANGED <<fs, dirs, archiveLog, dry_run, stack, cur, stdout, stderr, gitOut, buildOut, failed,
                   builds, yielded, moved, fs0, dirs0, log0, quiet, quiet0,
                   runs>>

(***************************************************************************)
(* main                                                                    *)
(***************************************************************************)
\* lines 45-48: a process starts and reads its arguments
StartProcess ==
    /\ runs' = runs + 1
    /\ \E flag \in BOOLEAN : dry_run' = flag
    /\ pc' = "main"
    /\ stack' = <<>>
    /\ cur' = <<>>
    /\ exit_code' = 0
    /\ stdout' = <<>>
    /\ stderr' = <<>>
    /\ gitOut' = [spawned |-> TRUE, status |-> 0, stdout |-> <<>>]
    /\ buildOut' = [spawned |-> TRUE, status |-> 0]
    /\ builds' = 0
    /\ failed' = ""
    /\ yielded' = {}
    /\ moved' = <<>>
    /\ fs0' = fs
    /\ dirs0' = dirs
    /\ log0' = archiveLog
    /\ quiet0' = quiet
    /\ UNCHANGED <<fs, dirs, archiveLog, quiet>>

\* the first invocation
Start ==
    /\ pc = "idle"
    /\ runs < MaxRuns
    /\ StartProcess

\* the tool is invoked again once the process before has ended
Restart ==
    /\ pc \in {"exit", "killed"}
    /\ runs < MaxRuns
    /\ StartProcess

\* what running `git status --porcelain` may give: the binary does not start, or it
\* ends with a status and some standard output
GitOutputs ==
    { [spawned |-> FALSE, status |-> 0, stdout |-> <<>>],
      [spawned |-> TRUE, status |-> 0, stdout |-> <<>>],
      [spawned |-> TRUE, status |-> 0, stdout |-> <<" M old.bak">>],
      [spawned |-> TRUE, status |-> 128, stdout |-> <<>>] }

\* is_git_clean that never looks at the output
is_git_clean_AnyOutput(output) == TRUE

\* is_git_clean, given an output that exists
is_git_clean(output) == output.stdout = <<>>

\* lines 49-53: is_git_clean, then exit(1) or the walk begins at the root
CheckClean ==
    /\ pc = "main"
    /\ \E output \in GitOutputs :
         /\ gitOut' = output
         /\ IF ~output.spawned
              THEN /\ pc' = "exit"
                   /\ exit_code' = 101
                   /\ stderr' = <<"panic">>
                   /\ stack' = stack
              ELSE IF ~is_git_clean(output)
              THEN /\ pc' = "exit"
                   /\ exit_code' = 1
                   /\ stderr' = <<"Git working directory is not clean">>
                   /\ stack' = stack
              ELSE /\ pc' = "walk"
                   /\ exit_code' = exit_code
                   /\ stderr' = stderr
                   /\ stack' = <<{root}>>
    /\ UNCHANGED <<fs, dirs, archiveLog, dry_run, cur, stdout, buildOut, builds, failed,
                   yielded, moved, fs0, dirs0, log0, quiet, quiet0, runs>>

(***************************************************************************)
(* find_unused_code                                                        *)
(***************************************************************************)
\* the loop body without line 17
VerdictNoArchiveCheck(f, path) ==
    IF ~IsFile(f, path) THEN "not a file"
    ELSE IF FileLen(f, path) = 0 THEN "empty"
    ELSE IF ~NameMatches(FileName(path)) THEN "name"
    ELSE "candidate"

\* lines 17-22: what the loop body decides about an entry
Verdict(f, path) ==
    IF StartsWith(path, archive) THEN "archived"
    ELSE IF ~IsFile(f, path) THEN "not a file"
    ELSE IF FileLen(f, path) = 0 THEN "empty"
    ELSE IF ~NameMatches(FileName(path)) THEN "name"
    ELSE "candidate"

\* lines 23-24
RelPath(path) == StripPrefix(path, root)

Dest(path) == Join(archive, RelPath(path))

\* line 31, without its time stamp
LogLine(path) == [rel |-> RelPath(path), dest |-> Dest(path)]

\* the walk yields entry e of the directory it is reading
Yields(e) ==
    /\ pc = "walk"
    /\ stack # <<>>
    /\ e \in stack[Len(stack)]

\* an entry the loop body passes over with `continue` or by falling through
Skip(e) ==
    /\ stack' = Advance(stack, e)
    /\ yielded' = yielded \cup {e}
    /\ UNCHANGED <<fs, dirs, archiveLog, pc, dry_run, cur, exit_code, stdout, stderr,
                   gitOut, buildOut, failed, builds, moved, fs0, dirs0, log0, quiet, quiet0,
                   runs>>

\* line 17
SkipArchived == \E e \in UNION Range(stack) : Yields(e) /\ Verdict(fs, e) = "archived" /\ Skip(e)

\* line 18
SkipNotFile == \E e \in UNION Range(stack) : Yields(e) /\ Verdict(fs, e) = "not a file" /\ Skip(e)

\* line 20
SkipEmpty == \E e \in UNION Range(stack) : Yields(e) /\ Verdict(fs, e) = "empty" /\ Skip(e)

\* line 22, condition false
SkipName == \E e \in UNION Range(stack) : Yields(e) /\ Verdict(fs, e) = "name" /\ Skip(e)

\* lines 25-26
ReportCandidate ==
    /\ dry_run
    /\ \E e \in UNION Range(stack) :
         /\ Yields(e)
         /\ Verdict(fs, e) = "candidate"
         /\ stdout' = Append(stdout, [text |-> "Would archive", rel |-> RelPath(e)])
         /\ stack' = Advance(stack, e)
         /\ yielded' = yielded \cup {e}
    /\ UNCHANGED <<fs, dirs, archiveLog, pc, dry_run, cur, exit_code, stderr, gitOut, buildOut, failed,
                   builds, moved, fs0, dirs0, log0, quiet, quiet0, runs>>

\* lines 28-31 with the log written before the rename
ArchiveOrderLogFirst == <<"mkdir", "log", "rename">>

\* lines 28-31: the calls made for a candidate of a live run, in their order
ArchiveOrder == <<"mkdir", "rename", "log">>

\* where the loop body is once the call `step` has returned Ok
After(step) ==
    LET i == CHOOSE k \in DOMAIN ArchiveOrder : ArchiveOrder[k] = step
    IN  IF i < Len(ArchiveOrder) THEN ArchiveOrder[i + 1] ELSE "walk"

\* line 27: the live branch is entered for a candidate
BeginArchive ==
    /\ ~dry_run
    /\ \E e \in UNION Range(stack) :
         /\ Yields(e)
         /\ Verdict(fs, e) = "candidate"
         /\ cur' = e
         /\ stack' = Advance(stack, e)
         /\ yielded' = yielded \cup {e}
    /\ pc' = ArchiveOrder[1]
    /\ UNCHANGED <<fs, dirs, archiveLog, dry_run, exit_code, stdout, stderr, gitOut,
                   buildOut, builds, failed, moved, fs0, dirs0, log0, quiet, quiet0,
                   runs>>

\* the directories create_dir_all has to make for a path
Missing(d, path) == (Ancestors(path) \cup {path}) \ d

\* the n directories nearest the root among those
FirstMissing(d, path, n) ==
    { m \in Missing(d, path) :
        Cardinality({ k \in Missing(d, path) : Len(k) < Len(m) }) < n }

\* an Err that is reported and then dropped, the loop going on
IoErrorSwallowed(what) ==
    /\ pc' = "walk"
    /\ exit_code' = exit_code
    /\ stderr' = <<"Error during cleanup", what>>

\* the `?` of lines 28-31 on an Err: find_unused_code returns it, then lines 53-56
IoError(what) ==
    /\ pc' = "exit"
    /\ exit_code' = 1
    /\ stderr' = <<"Error during cleanup", what>>

\* line 28: every missing directory is made
CreateDirAll ==
    /\ pc = "mkdir"
    /\ dirs' = dirs \cup Missing(dirs, Parent(Dest(cur)))
    /\ pc' = After("mkdir")
    /\ UNCHANGED <<fs, archiveLog, dry_run, stack, cur, exit_code, stdout, stderr,
                   gitOut, buildOut, builds, failed, yielded, moved, fs0, dirs0, log0,
                   quiet, quiet0, runs>>

\* line 28 fails, having made some of the directories or all of them
CreateDirAllFails ==
    /\ pc = "mkdir"
    /\ \E n \in 0..Cardinality(Missing(dirs, Parent(Dest(cur)))) :
         dirs' = dirs \cup FirstMissing(dirs, Parent(Dest(cur)), n)
    /\ failed' = "create_dir_all"
    /\ IoError("create_dir_all")
    /\ UNCHANGED <<fs, archiveLog, dry_run, stack, cur, stdout, gitOut, buildOut,
                   builds, yielded, moved, fs0, dirs0, log0, quiet, quiet0, runs>>

\* fs::rename: the file leaves `from` and replaces whatever is at `to`
RenameFile(f, from, to) == Put(Remove(f, from), to, f[from])

\* line 29
Rename ==
    /\ pc = "rename"
    /\ fs' = RenameFile(fs, cur, Dest(cur))
    /\ moved' = Append(moved, RelPath(cur))
    /\ pc' = After("rename")
    /\ UNCHANGED <<dirs, archiveLog, dry_run, stack, cur, exit_code, stdout, stderr,
                   gitOut, buildOut, builds, failed, yielded, fs0, dirs0, log0, quiet,
                   quiet0, runs>>

\* line 29 fails
RenameFails ==
    /\ pc = "rename"
    /\ failed' = "rename"
    /\ IoError("rename")
    /\ UNCHANGED <<fs, dirs, archiveLog, dry_run, stack, cur, stdout, gitOut, buildOut,
                   builds, yielded, moved, fs0, dirs0, log0, quiet, quiet0, runs>>

\* OpenOptions::new().append(true).create(true).open, then writeln!
AppendLine(l, line) == [exists |-> TRUE, lines |-> Append(l.lines, line)]

\* lines 30-31
LogAppend ==
    /\ pc = "log"
    /\ archiveLog' = AppendLine(archiveLog, LogLine(cur))
    /\ pc' = After("log")
    /\ UNCHANGED <<fs, dirs, dry_run, stack, cur, exit_code, stdout, stderr, gitOut,
                   buildOut, builds, failed, yielded, moved, fs0, dirs0, log0, quiet,
                   quiet0, runs>>

\* line 30 fails (nothing is opened), or line 31 fails (the file is there, the line is not)
LogAppendFails ==
    /\ pc = "log"
    /\ \E opened \in BOOLEAN :
         archiveLog' = [archiveLog EXCEPT !.exists = @ \/ opened]
    /\ failed' = "log"
    /\ IoError("log")
    /\ UNCHANGED <<fs, dirs, dry_run, stack, cur, stdout, gitOut, buildOut, builds,
                   yielded, moved, fs0, dirs0, log0, quiet, quiet0, runs>>

\* main without the `if !dry_run` of line 57
WalkDoneAlwaysBuilds ==
    /\ pc = "walk"
    /\ stack = <<>>
    /\ pc' = "build"
    /\ quiet' = TRUE
    /\ UNCHANGED <<fs, dirs, archiveLog, dry_run, stack, cur, exit_code, stdout, stderr,
                   gitOut, buildOut, builds, failed, yielded, moved, fs0, dirs0, log0,
                   quiet0, runs>>

\* line 36 and lines 57, 64: the walk is over; a dry run ends, a live run goes on to build
WalkDone ==
    /\ pc = "walk"
    /\ stack = <<>>
    /\ IF dry_run
         THEN /\ pc' = "exit"
              /\ exit_code' = 0
              /\ quiet' = quiet
         ELSE /\ pc' = "build"
              /\ exit_code' = exit_code
              /\ quiet' = TRUE
    /\ UNCHANGED <<fs, dirs, archiveLog, dry_run, stack, cur, stdout, stderr, gitOut,
                   buildOut, builds, failed, yielded, moved, fs0, dirs0, log0, quiet0,
                   runs>>

(***************************************************************************)
(* rebuild_workspace                                                       *)
(***************************************************************************)
\* what running `cargo build` may give: cargo does not start, or it ends with a status
BuildOutputs ==
    { [spawned |-> FALSE, status |-> 0],
      [spawned |-> TRUE, status |-> 0],
      [spawned |-> TRUE, status |-> 101] }

\* rebuild_workspace that never looks at the status
rebuild_workspace_IgnoresStatus(output) == TRUE

\* rebuild_workspace, given an output that exists: ExitStatus::success
rebuild_workspace(output) == output.status = 0

\* lines 58-62, the build succeeding
BuildSucceeds ==
    /\ pc = "build"
    /\ \E output \in BuildOutputs :
         /\ output.spawned
         /\ rebuild_workspace(output)
         /\ buildOut' = output
    /\ builds' = builds + 1
    /\ stdout' = Append(stdout, [text |-> "Cleanup complete", rel |-> <<>>])
    /\ pc' = "exit"
    /\ exit_code' = 0
    /\ UNCHANGED <<fs, dirs, archiveLog, dry_run, stack, cur, stderr, gitOut, failed,
                   yielded, moved, fs0, dirs0, log0, quiet, quiet0, runs>>

\* lines 58-61, the build failing
BuildFails ==
    /\ pc = "build"
    /\ \E output \in BuildOutputs :
         /\ output.spawned
         /\ ~rebuild_workspace(output)
         /\ buildOut' = output
    /\ builds' = builds + 1
    /\ stderr' = <<"Workspace rebuild failed">>
    /\ pc' = "exit"
    /\ exit_code' = 1
    /\ UNCHANGED <<fs, dirs, archiveLog, dry_run, stack, cur, stdout, gitOut, failed,
                   yielded, moved, fs0, dirs0, log0, quiet, quiet0, runs>>

\* line 40: cargo cannot be started and unwrap panics
BuildPanics ==
    /\ pc = "build"
    /\ \E output \in BuildOutputs :
         /\ ~output.spawned
         /\ buildOut' = output
    /\ stderr' = <<"panic">>
    /\ pc' = "exit"
    /\ exit_code' = 101
    /\ UNCHANGED <<fs, dirs, archiveLog, dry_run, stack, cur, stdout, gitOut, builds,
                   failed, yielded, moved, fs0, dirs0, log0, quiet, quiet0, runs>>

Next ==
    \/ Interrupt
    \/ Start
    \/ CheckClean
    \/ SkipArchived
    \/ SkipNotFile
    \/ SkipEmpty
    \/ SkipName
    \/ ReportCandidate
    \/ BeginArchive
    \/ CreateDirAll
    \/ CreateDirAllFails
    \/ Rename
    \/ RenameFails
    \/ LogAppend
    \/ LogAppendFails
    \/ WalkDone
    \/ BuildSucceeds
    \/ BuildFails
    \/ BuildPanics

Spec == Init /\ [][Next]_vars

NextRuns ==
    \/ Next
    \/ Restart
    \/ EnvWrite

SpecRuns == InitRuns /\ [][NextRuns]_vars

(***************************************************************************)
(* The properties, in the words of the specification                       *)
(***************************************************************************)
ArchiveName == <<"a", "r", "c", "h", "i", "v", "e">>

\* the names of the trees above that end in ".bak" or contain "unused" or "legacy"
StaleNames == { old_bak, archive_bak, unused_rs, legacy }

\* a path below ./archive
UnderArchive(p) == Len(p) > 2 /\ p[2] = ArchiveName

\* the candidates of a tree
Expected(f) ==
    { p \in DOMAIN f : p[Len(p)] \in StaleNames /\ f[p] # <<>> /\ ~UnderArchive(p) }

\* a path of the tree, relative to the root, and where it is archived
Rel(p) == Tail(p)

Src(rel) == << <<".">> >> \o rel

Dst(rel) == << <<".">>, ArchiveName >> \o rel

\* the relative paths a dry run reported
Reported == { stdout[i].rel : i \in { k \in DOMAIN stdout : stdout[k].text = "Would archive" } }

\* the relative paths this run has flagged: reported by a dry run; moved, or being
\* moved, by a live run
Flagged ==
    IF dry_run THEN Reported
    ELSE Range(moved) \cup (IF cur = <<>> THEN {} ELSE {Rel(cur)})

\* the walk of this run went through the whole tree
WalkFinished == pc \in {"build", "exit"} /\ yielded # {} /\ failed = ""

\* the lines this run appended to the log
Written == SubSeq(archiveLog.lines, Len(log0.lines) + 1, Len(archiveLog.lines))

\* every file this run moved is at its place in the archive, with its content, and
\* gone from where it was
MovedStay ==
    \A i \in DOMAIN moved :
        /\ Dst(moved[i]) \in DOMAIN fs
        /\ fs[Dst(moved[i])] = fs0[Src(moved[i])]
        /\ Src(moved[i]) \notin DOMAIN fs

\* the first n moves of this run are logged, one line each, in order, and nothing else
Logged(n) ==
    /\ Len(archiveLog.lines) = Len(log0.lines) + n
    /\ SubSeq(archiveLog.lines, 1, Len(log0.lines)) = log0.lines
    /\ \A i \in 1..n :
        Written[i] = [rel |-> moved[i], dest |-> Dst(moved[i])]

\* git reported pending modifications
Dirty == gitOut.spawned /\ gitOut.stdout # <<>>

\* the run has changed nothing: no file, no directory, no line of the log
Untouched ==
    /\ fs = fs0
    /\ dirs = dirs0
    /\ archiveLog = log0
    /\ moved = <<>>

\* C1: when git status prints anything, the run ends with status 1 before the scan:
\* no entry examined, no directory made, no file renamed, no log line, no build.
C1_DirtyTreeStops ==
    (pc # "idle" /\ Dirty) =>
        /\ pc = "exit"
        /\ exit_code = 1
        /\ yielded = {}
        /\ stack = <<>>
        /\ Untouched
        /\ builds = 0

C1_Witness ==
    /\ Dirty
    /\ pc = "exit"
    /\ ~dry_run
    /\ Expected(fs) # {}

\* the entries the live branch of the loop is entered for, in a given tree
LiveCandidates(f) == { p \in DOMAIN f : Verdict(f, p) = "candidate" }

\* C2: a dry run changes nothing in the file system, never builds, and reports exactly
\* the candidates a live run would act on in the tree it started from.
C2_DryRunChangesNothing ==
    (pc # "idle" /\ dry_run) =>
        /\ Untouched
        /\ builds = 0
        /\ pc # "build"
        /\ (pc = "exit" /\ exit_code = 0) =>
              /\ Reported = { RelPath(p) : p \in LiveCandidates(fs0) }
              /\ Len(stdout) = Cardinality(Reported)

C2_Witness ==
    /\ dry_run
    /\ pc = "exit"
    /\ exit_code = 0
    /\ Cardinality(Reported) = 2

\* C3: a file is flagged if and only if its name ends in ".bak" or contains "unused" or
\* "legacy", its size is not zero and it is not below the archive directory.
C3_FlaggedIffCandidate ==
    /\ Flagged \subseteq { Rel(p) : p \in Expected(fs0) }
    /\ WalkFinished => Flagged = { Rel(p) : p \in Expected(fs0) }

C3_Witness ==
    /\ WalkFinished
    /\ Flagged # {}
    /\ \E p \in DOMAIN fs0 :
         /\ p[Len(p)] \in StaleNames
         /\ (fs0[p] = <<>> \/ UnderArchive(p))

\* C4: after a live run without interrupt or I/O error every moved file is in the
\* archive and gone from its place, the log gained one line per move, and every file
\* that was no candidate is where it was, with its content.
C4_LiveRunResult ==
    (~dry_run /\ gitOut.status = 0 /\ WalkFinished) =>
        /\ MovedStay
        /\ Logged(Len(moved))
        /\ \A p \in DOMAIN fs0 \ Expected(fs0) : p \in DOMAIN fs /\ fs[p] = fs0[p]

\* C5: a live run after a live run that finished archiving, nothing written in between,
\* moves no file and leaves the log as it was.
C5_SecondRunIdle ==
    (pc # "idle" /\ quiet0 /\ ~dry_run) =>
        /\ moved = <<>>
        /\ archiveLog = log0
        /\ fs = fs0

C5_Witness ==
    /\ quiet0
    /\ ~dry_run
    /\ pc = "exit"
    /\ exit_code = 0
    /\ Len(log0.lines) = 2

\* C6: when the status of the working tree cannot be obtained (git does not start, or
\* git status fails), the run stops before any scan, rename, log write or build.
C6_FailsClosed ==
    (pc # "idle" /\ (~gitOut.spawned \/ gitOut.status # 0)) =>
        /\ pc = "exit"
        /\ exit_code # 0
        /\ yielded = {}
        /\ Untouched
        /\ builds = 0

\* C7: when the build of a live run exits non-zero, the tool exits with status 1 and
\* rolls nothing back: the moved files stay in the archive, the log lines stay.
C7_BuildFailureKeepsArchive ==
    (buildOut.spawned /\ buildOut.status # 0) =>
        /\ pc = "exit"
        /\ exit_code = 1
        /\ stderr = <<"Workspace rebuild failed">>
        /\ builds = 1
        /\ MovedStay
        /\ Logged(Len(moved))

C7_Witness ==
    /\ buildOut.spawned
    /\ buildOut.status # 0
    /\ Len(moved) = 2

\* C8: the first failing create_dir_all, rename or log write ends a live run: status 1,
\* no build, the files moved before it stay in the archive, and no candidate the walk
\* had not reached is moved or logged.
C8_FirstErrorAborts ==
    (failed # "") =>
        /\ pc = "exit"
        /\ exit_code = 1
        /\ builds = 0
        /\ MovedStay
        /\ Logged(IF failed = "log" THEN Len(moved) - 1 ELSE Len(moved))
        /\ Range(moved) \subseteq { Rel(p) : p \in yielded }
        /\ \A p \in Expected(fs0) \ yielded : p \in DOMAIN fs /\ fs[p] = fs0[p]

C8_Witness ==
    /\ failed = "log"
    /\ Len(moved) = 1
    /\ Expected(fs0) \ yielded # {}

\* C9: the rename of a candidate comes before its log line: at every point of a run
\* each line the run wrote names a file that is at its archive destination, and the
\* moves outnumber the lines by one at most.
C9_RenameBeforeLog ==
    /\ Len(Written) <= Len(moved)
    /\ Len(moved) <= Len(Written) + 1
    /\ \A i \in DOMAIN Written :
        /\ Written[i] = [rel |-> moved[i], dest |-> Dst(moved[i])]
        /\ Written[i].dest \in DOMAIN fs

C9_Witness ==
    /\ pc = "killed"
    /\ Len(moved) = 2
    /\ Len(Written) = 1

\* C10: no live run overwrites or removes a file that is already below the archive
\* directory when the run starts: a file archived by an earlier run keeps its content.
C10_ArchiveKept ==
    (~dry_run /\ gitOut.status = 0) =>
        \A p \in DOMAIN fs0 : UnderArchive(p) => (p \in DOMAIN fs /\ fs[p] = fs0[p])

====
